---------------------------- MODULE Spec2Model ----------------------------
(***************************************************************************)
(* Passenger/Flight API (src/main.py, src/models/flight.py,                *)
(* src/models/passenger.py): two module-level dicts, `passengers` and      *)
(* `flights`, and five FastAPI handlers over each.                         *)
(*                                                                         *)
(* Python values are modelled as optionals: None is the empty tuple and a  *)
(* value v is <<v>>, so that a field holding None can be told from one     *)
(* holding a value without comparing values of different types.  A         *)
(* pydantic model instance and the dict model_dump() makes of it are the   *)
(* same function from field names to such values.  A python dict keyed by  *)
(* UUID is a sequence of [key, value] entries in insertion order.          *)
(***************************************************************************)
EXTENDS Integers, Sequences, FiniteSets, TLC

VARIABLES
    passengers,  \* main.py:22  Dict[UUID, PassengerRead]
    flights,     \* main.py:23  Dict[UUID, FlightRead]
    issued,      \* number of UUIDs uuid4() has returned so far
    now,         \* the last value datetime.utcnow() returned
    nreq,        \* number of requests handled
    req,         \* the last request: [op, id, body]
    resp,        \* the response to it: [status, body]
    pre,         \* both stores as they were when the last request arrived
    created,     \* identifier -> the [body, record] of the POST /passengers that
                 \* returned it, kept until a PATCH or DELETE names the identifier
    pc,          \* per worker thread: the handler line it is about to run
    treq,        \* per worker thread: the request it is handling
    stored,      \* per worker thread: the local `stored` of update_passenger
    tresp,       \* per worker thread: the response it returned
    deleted,     \* passenger identifiers whose DELETE has returned 204
    overlap      \* TRUE once a handler started while another was running

vars == <<passengers, flights, issued, now, nreq, req, resp, pre, created,
          pc, treq, stored, tresp, deleted, overlap>>

serialVars == <<nreq, req, resp, pre, created>>
threadVars == <<pc, treq, stored, tresp, overlap>>

(***************************************************************************)
(* Bounds of the model.                                                    *)
(***************************************************************************)
MaxRequests == 3   \* requests handled in one run
MaxUuid == 2       \* UUIDs uuid4() can hand out in one run

UUIDs == 1..(MaxUuid + 1)   \* identifiers a caller can name in a path or body

(***************************************************************************)
(* Python values.                                                          *)
(***************************************************************************)
None == <<>>
Py(v) == <<v>>

\* Mutant of DictUpdate: the arguments swapped, so the entries of a win
DictUpdateKeep(a, b) ==
    [f \in (DOMAIN a) \cup (DOMAIN b) |-> IF f \in DOMAIN a THEN a[f] ELSE b[f]]

\* dict.update / {**a, **b}: b's entries win, a's other entries stay
DictUpdate(a, b) ==
    [f \in (DOMAIN a) \cup (DOMAIN b) |-> IF f \in DOMAIN b THEN b[f] ELSE a[f]]

\* str(date): date.isoformat(), "%04d-%02d-%02d"
Pad2(n) == IF n < 10 THEN "0" \o ToString(n) ELSE ToString(n)
Pad4(n) == IF n < 10 THEN "000" \o ToString(n)
           ELSE IF n < 100 THEN "00" \o ToString(n)
           ELSE IF n < 1000 THEN "0" \o ToString(n)
           ELSE ToString(n)
isoformat(d) == Pad4(d[1]) \o "-" \o Pad2(d[2]) \o "-" \o Pad2(d[3])
\* str(x) of an Optional[date]
str(x) == IF x = None THEN Py("None") ELSE Py(isoformat(x[1]))

(***************************************************************************)
(* Python dict keyed by UUID, in insertion order.                          *)
(***************************************************************************)
EmptyDict == <<>>
Keys(d) == {d[i].key : i \in 1..Len(d)}
Contains(d, k) == k \in Keys(d)                                 \* k in d
GetItem(d, k) == d[CHOOSE i \in 1..Len(d) : d[i].key = k].value \* d[k]
SetItem(d, k, v) ==                                             \* d[k] = v
    IF Contains(d, k)
    THEN [i \in 1..Len(d) |-> IF d[i].key = k THEN [key |-> k, value |-> v] ELSE d[i]]
    ELSE Append(d, [key |-> k, value |-> v])
\* Mutant of DelItem: d.clear()
DelItemClear(d, k) == EmptyDict
DelItem(d, k) ==                                                \* del d[k]
    LET keep(e) == e.key # k IN SelectSeq(d, keep)
Values(d) == [i \in 1..Len(d) |-> d[i].value]                   \* list(d.values())


(***************************************************************************)
(* models/flight.py                                                        *)
(***************************************************************************)
FlightBaseFields ==
    {"flightNumber", "boardingTime", "departureTime",
     "arrivalTime", "departureAirport", "arrivalAirport"}
\* the fields declared Field(...): required
FlightRequired == {"flightNumber", "boardingTime", "departureTime", "arrivalAirport"}
ReadOnlyFields == {"id", "created_at", "updated_at"}
FlightReadFields == FlightBaseFields \cup ReadOnlyFields

\* Validation of a FlightBase from keyword arguments or a JSON body: a required
\* field is present, and every declared field that is given holds a str (its
\* type is str, not Optional[str]).  Keys the model does not declare are ignored.
FlightBaseValid(kw) ==
    /\ \A f \in FlightRequired : f \in DOMAIN kw
    /\ \A f \in FlightBaseFields \cap DOMAIN kw : kw[f] # None

\* FlightCreate(**body): the declared fields only; arrivalTime and
\* departureAirport default to None (Field(None, ...), defaults are not validated)
FlightCreate(body) ==
    [f \in FlightBaseFields |-> IF f \in DOMAIN body THEN body[f] ELSE None]

\* FlightUpdate(**body).model_dump(exclude_unset=True): the declared fields the
\* body sets, each Optional[str], so an explicit null is kept as None
FlightUpdate(body) ==
    [f \in FlightBaseFields \cap DOMAIN body |-> body[f]]

FlightReadValid(kw) ==
    /\ FlightBaseValid(kw)
    /\ \A f \in ReadOnlyFields \cap DOMAIN kw : kw[f] # None

\* FlightRead(**kw): id, created_at, updated_at come from their default
\* factories (uuid4, utcnow, utcnow) when kw does not give them
FlightRead(kw, uuid, t1, t2) ==
    [f \in FlightReadFields |->
        IF f \in DOMAIN kw THEN kw[f]
        ELSE IF f = "id" THEN Py(uuid)
        ELSE IF f = "created_at" THEN Py(t1)
        ELSE IF f = "updated_at" THEN Py(t2)
        ELSE None]

(***************************************************************************)
(* models/passenger.py                                                     *)
(***************************************************************************)
PassengerBaseFields ==
    {"firstName", "lastName", "email", "phone", "birthDate",
     "passportNumber", "flights"}
PassengerRequired == PassengerBaseFields \ {"flights"}
PassengerReadFields == PassengerBaseFields \cup ReadOnlyFields

\* Validation of a PassengerBase: every field but flights is required, and no
\* declared field that is given may be None.
PassengerBaseValid(kw) ==
    /\ \A f \in PassengerRequired : f \in DOMAIN kw
    /\ \A f \in PassengerBaseFields \cap DOMAIN kw : kw[f] # None

\* Mutant of PassengerCreate: the flights of the body are not taken over
PassengerCreateNoFlights(body) ==
    [f \in PassengerBaseFields |->
        IF f \in DOMAIN body /\ f # "flights" THEN body[f] ELSE Py(<<>>)]

\* PassengerCreate(**body): flights defaults to the empty list
PassengerCreate(body) ==
    [f \in PassengerBaseFields |-> IF f \in DOMAIN body THEN body[f] ELSE Py(<<>>)]

\* Mutant of PassengerUpdate: a model that also declares id
PassengerUpdateKeepsId(body) ==
    [f \in (PassengerBaseFields \cup {"id"}) \cap DOMAIN body |-> body[f]]

\* PassengerUpdate(**body).model_dump(exclude_unset=True)
PassengerUpdate(body) ==
    [f \in PassengerBaseFields \cap DOMAIN body |-> body[f]]

PassengerReadValid(kw) ==
    /\ PassengerBaseValid(kw)
    /\ \A f \in ReadOnlyFields \cap DOMAIN kw : kw[f] # None

\* Mutant of PassengerRead: updated_at is set anew on every construction
PassengerReadTouch(kw, uuid, t1, t2) ==
    [f \in PassengerReadFields |->
        IF f = "updated_at" THEN Py(t2)
        ELSE IF f \in DOMAIN kw THEN kw[f]
        ELSE IF f = "id" THEN Py(uuid)
        ELSE IF f = "created_at" THEN Py(t1)
        ELSE Py(<<>>)]

\* PassengerRead(**kw): as FlightRead; flights defaults to the empty list
PassengerRead(kw, uuid, t1, t2) ==
    [f \in PassengerReadFields |->
        IF f \in DOMAIN kw THEN kw[f]
        ELSE IF f = "id" THEN Py(uuid)
        ELSE IF f = "created_at" THEN Py(t1)
        ELSE IF f = "updated_at" THEN Py(t2)
        ELSE Py(<<>>)]

\* Mutant of uuid4: Field(default=uuid4()), evaluated once at import
uuid4Once == issued - issued + 1

\* uuid4(): a UUID no earlier call returned
uuid4 == issued + 1

\* datetime.utcnow() at the start of a request: time has passed since the last
utcnow == now + 1

(***************************************************************************)
(* Requests the model sends.  Bodies and queries are the examples of the   *)
(* models' json_schema_extra, plus bodies with an extra "id", a missing    *)
(* required field, an explicit null, and nothing set.                      *)
(***************************************************************************)
FlightExample1 ==
    [flightNumber |-> Py("UA1250"), boardingTime |-> Py("7:00AM"),
     departureTime |-> Py("7:32AM"), arrivalAirport |-> Py("SFO")]
FlightExample2 ==
    [flightNumber |-> Py("UA1234"), boardingTime |-> Py("3:15PM"),
     departureTime |-> Py("3:45PM"), arrivalTime |-> Py("4:53PM"),
     departureAirport |-> Py("LGA"), arrivalAirport |-> Py("ORD")]
FlightBodies ==
    {FlightExample1, FlightExample2, [flightNumber |-> Py("UA1250")]}
        \cup {FlightExample2 @@ ("id" :> Py(k)) : k \in UUIDs}
FlightPatches ==
    { <<>>,
      [arrivalTime |-> Py("4:23AM")],
      [boardingTime |-> Py("8:00PM"), departureTime |-> Py("8:30PM"),
       arrivalTime |-> Py("4:45AM")],
      [flightNumber |-> Py("UA7865"), departureAirport |-> Py("SJC"),
       arrivalAirport |-> Py("MIA")],
      [flightNumber |-> None],
      [id |-> Py(2), arrivalAirport |-> Py("MIA")] }
NoFlightQuery == [f \in FlightBaseFields |-> None]
FlightQueries ==
    { NoFlightQuery,
      [NoFlightQuery EXCEPT !["flightNumber"] = Py("UA1234")],
      [NoFlightQuery EXCEPT !["arrivalTime"] = Py("4:23AM")],
      [NoFlightQuery EXCEPT !["departureAirport"] = Py("LGA"),
                            !["arrivalAirport"] = Py("SFO")],
      [NoFlightQuery EXCEPT !["boardingTime"] = Py("3:15PM"),
                            !["departureTime"] = Py("3:45PM")] }

Ada ==
    [firstName |-> Py("Ada"), lastName |-> Py("Lovelace"),
     email |-> Py("ada@example.com"), phone |-> Py("+1-212-555-0199"),
     birthDate |-> Py(<<1815, 12, 10>>), passportNumber |-> Py("A12345678")]
Grace ==
    [firstName |-> Py("Grace"), lastName |-> Py("Hopper"),
     email |-> Py("grace.hopper@navy.mil"), phone |-> Py("+1-202-555-0101"),
     birthDate |-> Py(<<1906, 12, 9>>), passportNumber |-> Py("B12345678"),
     flights |-> Py(<<>>)]
AdaByron ==
    [firstName |-> Py("Ada"), lastName |-> Py("Byron"),
     email |-> Py("ada@newmail.com"), phone |-> Py("+1-212-555-0199"),
     birthDate |-> Py(<<1815, 12, 10>>), passportNumber |-> Py("D12345678"),
     flights |-> Py(<<1, 1>>)]
PassengerBodies ==
    {Ada, Grace, AdaByron, Ada @@ ("id" :> Py(1)),
     [firstName |-> Py("Ada"), lastName |-> Py("Lovelace")]}
PassengerPatches ==
    { <<>>,
      [firstName |-> Py("Ada"), lastName |-> Py("Byron")],
      [phone |-> Py("+1-415-555-0199")],
      [passportNumber |-> Py("C12345678")],
      [email |-> Py("ada@newmail.com"), birthDate |-> Py(<<1906, 12, 9>>)],
      [flights |-> Py(<<2>>)],
      [firstName |-> None],
      [id |-> Py(2), lastName |-> Py("King")],
      [phone |-> Py("+1-415-555-0199"), flights |-> None] }
PassengerQueryFields == {"firstName", "lastName", "email", "phone", "birthDate"}
NoPassengerQuery == [f \in PassengerQueryFields |-> None]
PassengerQueries ==
    { NoPassengerQuery,
      [NoPassengerQuery EXCEPT !["firstName"] = Py("Ada")],
      [NoPassengerQuery EXCEPT !["firstName"] = Py("Ada"), !["lastName"] = Py("Byron")],
      [NoPassengerQuery EXCEPT !["firstName"] = Py("Grace"),
                               !["phone"] = Py("+1-212-555-0199")],
      [NoPassengerQuery EXCEPT !["email"] = Py("ada@newmail.com")],
      [NoPassengerQuery EXCEPT !["birthDate"] = Py("1815-12-10")],
      [NoPassengerQuery EXCEPT !["birthDate"] = Py("1906-12-9")],
      [NoPassengerQuery EXCEPT !["lastName"] = Py("Hopper"),
                               !["birthDate"] = Py("1906-12-09")] }

(***************************************************************************)
(* main.py: the handlers, each as the outcome of one call: the response,   *)
(* the handler's store afterwards, and the UUID counter and clock.  422 is *)
(* FastAPI rejecting the body before the handler runs; 500 is FastAPI's    *)
(* answer to an exception the handler does not catch.                      *)
(***************************************************************************)
Result(status, body, store, iss, t) ==
    [status |-> status, body |-> body, store |-> store, issued |-> iss, now |-> t]

\* Mutant of Where: the filter is not applied
WhereIgnored(results, f, q) == results

\* results = [a for a in results if a.<f> == q]  when q is not None
Where(results, f, q) ==
    LET match(a) == a[f] = q
    IN  IF q # None THEN SelectSeq(results, match) ELSE results

\* results = [p for p in results if str(p.<f>) == q]  when q is not None
WhereStr(results, f, q) ==
    LET match(a) == str(a[f]) = q
    IN  IF q # None THEN SelectSeq(results, match) ELSE results

\* ---- flights ----
create_flight(body, t2) ==
    LET flight == FlightCreate(body) IN
    IF ~FlightBaseValid(body) THEN Result(422, <<>>, flights, issued, utcnow)
    ELSE IF "id" \notin DOMAIN flight
         THEN Result(500, <<>>, flights, issued, utcnow)   \* flight.id: AttributeError
    ELSE IF Contains(flights, flight["id"][1])
         THEN Result(400, <<>>, flights, issued, utcnow)
    ELSE IF ~FlightReadValid(flight)
         THEN Result(500, <<>>, flights, issued, utcnow)   \* ValidationError
    ELSE LET new == SetItem(flights, flight["id"][1], FlightRead(flight, uuid4, utcnow, t2))
         IN  Result(201, <<GetItem(new, flight["id"][1])>>, new, issued, t2)

list_flights(q) ==
    LET r0 == Values(flights)
        r1 == Where(r0, "flightNumber", q["flightNumber"])
        r2 == Where(r1, "boardingTime", q["boardingTime"])
        r3 == Where(r2, "departureTime", q["departureTime"])
        r4 == Where(r3, "arrivalTime", q["arrivalTime"])
        r5 == Where(r4, "departureAirport", q["departureAirport"])
        r6 == Where(r5, "arrivalAirport", q["arrivalAirport"])
    IN  Result(200, r6, flights, issued, utcnow)

get_flight(flight_id) ==
    IF ~Contains(flights, flight_id) THEN Result(404, <<>>, flights, issued, utcnow)
    ELSE Result(200, <<GetItem(flights, flight_id)>>, flights, issued, utcnow)

update_flight(flight_id, body) ==
    IF ~Contains(flights, flight_id) THEN Result(404, <<>>, flights, issued, utcnow)
    ELSE LET kw == DictUpdate(GetItem(flights, flight_id), FlightUpdate(body)) IN
         IF ~FlightReadValid(kw)
         THEN Result(500, <<>>, flights, issued, utcnow)   \* ValidationError
         ELSE LET new == SetItem(flights, flight_id, FlightRead(kw, uuid4, utcnow, utcnow))
              IN  Result(200, <<GetItem(new, flight_id)>>, new, issued, utcnow)

delete_flight(flight_id) ==
    IF ~Contains(flights, flight_id) THEN Result(404, <<>>, flights, issued, utcnow)
    ELSE Result(204, <<>>, DelItem(flights, flight_id), issued, utcnow)

\* ---- passengers ----
create_passenger(body, t2) ==
    LET passenger == PassengerCreate(body) IN
    IF ~PassengerBaseValid(body) THEN Result(422, <<>>, passengers, issued, utcnow)
    ELSE IF ~PassengerReadValid(passenger)
         THEN Result(500, <<>>, passengers, issued, utcnow)
    ELSE LET passenger_read == PassengerRead(passenger, uuid4, utcnow, t2)
         IN  Result(201, <<passenger_read>>,
                    SetItem(passengers, passenger_read["id"][1], passenger_read),
                    issued + 1, t2)

list_passengers(q) ==
    LET r0 == Values(passengers)
        r1 == Where(r0, "firstName", q["firstName"])
        r2 == Where(r1, "lastName", q["lastName"])
        r3 == Where(r2, "email", q["email"])
        r4 == Where(r3, "phone", q["phone"])
        r5 == WhereStr(r4, "birthDate", q["birthDate"])
    IN  Result(200, r5, passengers, issued, utcnow)

get_passenger(passenger_id) ==
    IF ~Contains(passengers, passenger_id)
    THEN Result(404, <<>>, passengers, issued, utcnow)
    ELSE Result(200, <<GetItem(passengers, passenger_id)>>, passengers, issued, utcnow)

update_passenger(passenger_id, body) ==
    IF ~Contains(passengers, passenger_id)
    THEN Result(404, <<>>, passengers, issued, utcnow)
    ELSE LET kw == DictUpdate(GetItem(passengers, passenger_id), PassengerUpdate(body)) IN
         IF ~PassengerReadValid(kw)
         THEN Result(500, <<>>, passengers, issued, utcnow)   \* ValidationError
         ELSE LET new == SetItem(passengers, passenger_id,
                                 PassengerRead(kw, uuid4, utcnow, utcnow))
              IN  Result(200, <<GetItem(new, passenger_id)>>, new, issued, utcnow)

\* Mutant of delete_passenger: passengers.pop(passenger_id, None), no 404
delete_passenger_pop(passenger_id) ==
    Result(204, <<>>, DelItem(passengers, passenger_id), issued, utcnow)

delete_passenger(passenger_id) ==
    IF ~Contains(passengers, passenger_id)
    THEN Result(404, <<>>, passengers, issued, utcnow)
    ELSE Result(204, <<>>, DelItem(passengers, passenger_id), issued, utcnow)

(***************************************************************************)
(* One request handled from arrival to response, handlers one at a time.   *)
(***************************************************************************)
Served(op, id, body, r) ==
    /\ nreq < MaxRequests
    /\ req' = [op |-> op, id |-> id, body |-> body]
    /\ resp' = [status |-> r.status, body |-> r.body]
    /\ pre' = [passengers |-> passengers, flights |-> flights]
    /\ issued' = r.issued
    /\ now' = r.now
    /\ nreq' = nreq + 1
    /\ UNCHANGED threadVars

FlightServed(op, id, body, r) ==
    /\ Served(op, id, body, r)
    /\ flights' = r.store
    /\ UNCHANGED <<passengers, created, deleted>>

PassengerServed(op, id, body, r) ==
    /\ Served(op, id, body, r)
    /\ passengers' = r.store
    /\ created' =
         IF op = "create_passenger" /\ r.status = 201
         THEN (r.body[1]["id"][1] :> [body |-> body, record |-> r.body[1]]) @@ created
         ELSE IF op \in {"update_passenger", "delete_passenger"}
         THEN [k \in (DOMAIN created) \ {id[1]} |-> created[k]]
         ELSE created
    /\ deleted' =
         IF op = "delete_passenger" /\ r.status = 204
         THEN deleted \cup {id[1]} ELSE deleted
    /\ UNCHANGED flights

CreateFlight ==
    \E body \in FlightBodies, dt \in 0..1 :
        FlightServed("create_flight", None, body, create_flight(body, utcnow + dt))
ListFlights ==
    \E q \in FlightQueries : FlightServed("list_flights", None, q, list_flights(q))
GetFlight ==
    \E k \in UUIDs : FlightServed("get_flight", Py(k), <<>>, get_flight(k))
UpdateFlight ==
    \E k \in UUIDs, body \in FlightPatches :
        FlightServed("update_flight", Py(k), body, update_flight(k, body))
DeleteFlight ==
    \E k \in UUIDs : FlightServed("delete_flight", Py(k), <<>>, delete_flight(k))

CreatePassenger ==
    /\ issued < MaxUuid
    /\ \E body \in PassengerBodies, dt \in 0..1 :
        PassengerServed("create_passenger", None, body,
                        create_passenger(body, utcnow + dt))
ListPassengers ==
    \E q \in PassengerQueries :
        PassengerServed("list_passengers", None, q, list_passengers(q))
GetPassenger ==
    \E k \in UUIDs : PassengerServed("get_passenger", Py(k), <<>>, get_passenger(k))
UpdatePassenger ==
    \E k \in UUIDs, body \in PassengerPatches :
        PassengerServed("update_passenger", Py(k), body, update_passenger(k, body))
DeletePassenger ==
    \E k \in UUIDs : PassengerServed("delete_passenger", Py(k), <<>>, delete_passenger(k))

Threads == {"w1", "w2", "w3"}

Init ==
    /\ passengers = EmptyDict
    /\ flights = EmptyDict
    /\ issued = 0
    /\ now = 0
    /\ nreq = 0
    /\ req = [op |-> "none", id |-> None, body |-> <<>>]
    /\ resp = [status |-> 0, body |-> <<>>]
    /\ pre = [passengers |-> EmptyDict, flights |-> EmptyDict]
    /\ created = <<>>
    /\ pc = [t \in Threads |-> "idle"]
    /\ treq = [t \in Threads |-> [op |-> "none", id |-> None, body |-> <<>>]]
    /\ stored = [t \in Threads |-> <<>>]
    /\ tresp = [t \in Threads |-> [status |-> 0, body |-> <<>>]]
    /\ deleted = {}
    /\ overlap = FALSE

Next ==
    \/ CreateFlight
    \/ ListFlights
    \/ GetFlight
    \/ UpdateFlight
    \/ DeleteFlight
    \/ CreatePassenger
    \/ ListPassengers
    \/ GetPassenger
    \/ UpdatePassenger
    \/ DeletePassenger

Spec == Init /\ [][Next]_vars

(***************************************************************************)
(* The flight store holding two records when the requests start (a store   *)
(* as typed at main.py:23, filled before the first request).               *)
(***************************************************************************)
SeededFlights ==
    LET a == FlightRead(FlightExample2 @@ ("id" :> Py(1)), 1, 0, 0)
        b == FlightRead(DictUpdate(FlightExample1,
                                   [arrivalTime |-> Py("4:23AM"),
                                    departureAirport |-> Py("LGA"),
                                    id |-> Py(2)]), 2, 0, 0)
    IN  SetItem(SetItem(EmptyDict, 1, a), 2, b)

InitSeeded ==
    /\ passengers = EmptyDict
    /\ flights = SeededFlights
    /\ issued = 0
    /\ now = 0
    /\ nreq = 0
    /\ req = [op |-> "none", id |-> None, body |-> <<>>]
    /\ resp = [status |-> 0, body |-> <<>>]
    /\ pre = [passengers |-> EmptyDict, flights |-> SeededFlights]
    /\ created = <<>>
    /\ pc = [t \in Threads |-> "idle"]
    /\ treq = [t \in Threads |-> [op |-> "none", id |-> None, body |-> <<>>]]
    /\ stored = [t \in Threads |-> <<>>]
    /\ tresp = [t \in Threads |-> [status |-> 0, body |-> <<>>]]
    /\ deleted = {}
    /\ overlap = FALSE

SpecSeeded == InitSeeded /\ [][Next]_vars

(***************************************************************************)
(* Passenger handlers run by FastAPI's worker threads (handlers declared   *)
(* with plain `def` run in a thread pool): each thread serves one request, *)
(* and the lines of update_passenger and delete_passenger that touch the   *)
(* dict are separate steps, which the steps of other threads can separate. *)
(***************************************************************************)
Running(t) == pc[t] \notin {"idle", "done"}

\* the requests the threads are given
ThreadBodies == {Ada}
ThreadPatches ==
    { [firstName |-> Py("Ada"), lastName |-> Py("Byron")],
      [phone |-> Py("+1-415-555-0199")],
      [phone |-> Py("+1-415-555-0199"), flights |-> None] }

Begin(t, op, id, body, line) ==
    /\ pc[t] = "idle"
    /\ treq' = [treq EXCEPT ![t] = [op |-> op, id |-> id, body |-> body]]
    /\ pc' = [pc EXCEPT ![t] = line]
    /\ overlap' = (overlap \/ \E u \in Threads \ {t} : Running(u))

Return(t, status, body) ==
    /\ tresp' = [tresp EXCEPT ![t] = [status |-> status, body |-> body]]
    /\ pc' = [pc EXCEPT ![t] = "done"]

\* create_passenger, main.py:96-100: one write to the dict, the rest is local
TCreatePassenger(t) ==
    /\ pc[t] = "idle"
    /\ issued < MaxUuid
    /\ \E body \in ThreadBodies, dt \in 0..1 :
        LET r == create_passenger(body, utcnow + dt) IN
        /\ treq' = [treq EXCEPT ![t] = [op |-> "create_passenger", id |-> None,
                                        body |-> body]]
        /\ Return(t, r.status, r.body)
        /\ passengers' = r.store
        /\ issued' = r.issued
        /\ now' = r.now
    /\ UNCHANGED <<flights, serialVars, stored, deleted, overlap>>

TBeginUpdate(t) ==
    /\ \E k \in 1..MaxUuid, body \in ThreadPatches :
        Begin(t, "update_passenger", Py(k), body, "L133")
    /\ UNCHANGED <<passengers, flights, issued, now, serialVars, stored, tresp, deleted>>

\* main.py:133-134  if passenger_id not in passengers: raise 404
TUpdateCheck(t) ==
    /\ pc[t] = "L133"
    /\ IF ~Contains(passengers, treq[t].id[1])
       THEN Return(t, 404, <<>>)
       ELSE pc' = [pc EXCEPT ![t] = "L135"] /\ UNCHANGED tresp
    /\ UNCHANGED <<passengers, flights, issued, now, serialVars, treq, stored,
                   deleted, overlap>>

\* main.py:135-136  stored = passengers[passenger_id].model_dump(); stored.update(...)
TUpdateRead(t) ==
    /\ pc[t] = "L135"
    /\ IF ~Contains(passengers, treq[t].id[1])
       THEN Return(t, 500, <<>>) /\ UNCHANGED stored        \* KeyError
       ELSE /\ stored' = [stored EXCEPT ![t] =
                    DictUpdate(GetItem(passengers, treq[t].id[1]),
                               PassengerUpdate(treq[t].body))]
            /\ pc' = [pc EXCEPT ![t] = "L137"]
            /\ UNCHANGED tresp
    /\ UNCHANGED <<passengers, flights, issued, now, serialVars, treq, deleted, overlap>>

\* main.py:137  passengers[passenger_id] = PassengerRead(**stored)
TUpdateWrite(t) ==
    /\ pc[t] = "L137"
    /\ IF ~PassengerReadValid(stored[t])
       THEN Return(t, 500, <<>>) /\ UNCHANGED passengers    \* ValidationError
       ELSE /\ passengers' = SetItem(passengers, treq[t].id[1],
                                     PassengerRead(stored[t], uuid4, utcnow, utcnow))
            /\ pc' = [pc EXCEPT ![t] = "L138"]
            /\ UNCHANGED tresp
    /\ UNCHANGED <<flights, issued, now, serialVars, treq, stored, deleted, overlap>>

\* main.py:138  return passengers[passenger_id]
TUpdateReturn(t) ==
    /\ pc[t] = "L138"
    /\ IF ~Contains(passengers, treq[t].id[1])
       THEN Return(t, 500, <<>>)                            \* KeyError
       ELSE Return(t, 200, <<GetItem(passengers, treq[t].id[1])>>)
    /\ UNCHANGED <<passengers, flights, issued, now, serialVars, treq, stored,
                   deleted, overlap>>

TBeginDelete(t) ==
    /\ \E k \in 1..MaxUuid : Begin(t, "delete_passenger", Py(k), <<>>, "L142")
    /\ UNCHANGED <<passengers, flights, issued, now, serialVars, stored, tresp, deleted>>

\* main.py:142-143  if passenger_id not in passengers: raise 404
TDeleteCheck(t) ==
    /\ pc[t] = "L142"
    /\ IF ~Contains(passengers, treq[t].id[1])
       THEN Return(t, 404, <<>>)
       ELSE pc' = [pc EXCEPT ![t] = "L144"] /\ UNCHANGED tresp
    /\ UNCHANGED <<passengers, flights, issued, now, serialVars, treq, stored,
                   deleted, overlap>>

\* main.py:144-145  del passengers[passenger_id]; return None
TDeleteDel(t) ==
    /\ pc[t] = "L144"
    /\ IF ~Contains(passengers, treq[t].id[1])
       THEN Return(t, 500, <<>>) /\ UNCHANGED <<passengers, deleted>>   \* KeyError
       ELSE /\ passengers' = DelItem(passengers, treq[t].id[1])
            /\ deleted' = deleted \cup {treq[t].id[1]}
            /\ Return(t, 204, <<>>)
    /\ UNCHANGED <<flights, issued, now, serialVars, treq, stored, overlap>>

NextConc ==
    \E t \in Threads :
        \/ TCreatePassenger(t)
        \/ TBeginUpdate(t)
        \/ TUpdateCheck(t)
        \/ TUpdateRead(t)
        \/ TUpdateWrite(t)
        \/ TUpdateReturn(t)
        \/ TBeginDelete(t)
        \/ TDeleteCheck(t)
        \/ TDeleteDel(t)

SpecConc == Init /\ [][NextConc]_vars

(***************************************************************************)
(* What the claims speak of, read off the last request and its response.   *)
(***************************************************************************)
FlightOps == {"create_flight", "list_flights", "get_flight", "update_flight",
              "delete_flight"}
IsFlightOp == req.op \in FlightOps
StoreBefore == IF IsFlightOp THEN pre.flights ELSE pre.passengers
StoreAfter == IF IsFlightOp THEN flights ELSE passengers
BaseFields == IF IsFlightOp THEN FlightBaseFields ELSE PassengerBaseFields
StoresUnchanged == passengers = pre.passengers /\ flights = pre.flights
OtherStoreUnchanged ==
    IF IsFlightOp THEN passengers = pre.passengers ELSE flights = pre.flights

\* every record of d other than k's is in e, unchanged, and e holds no other
OthersUnchanged(d, e, k) ==
    /\ Keys(e) \ {k} = Keys(d) \ {k}
    /\ \A j \in Keys(d) \ {k} : GetItem(e, j) = GetItem(d, j)

PassengerMatches(p, q) ==
    \A f \in PassengerQueryFields :
        q[f] # None =>
            IF f = "birthDate" THEN isoformat(p[f][1]) = q[f][1] ELSE p[f] = q[f]
FlightMatches(a, q) ==
    \A f \in FlightBaseFields : q[f] # None => a[f] = q[f]
MatchingPassengers(d, q) ==
    LET m(p) == PassengerMatches(p, q) IN SelectSeq(Values(d), m)
MatchingFlights(d, q) ==
    LET m(a) == FlightMatches(a, q) IN SelectSeq(Values(d), m)
IdsIn(list) == {list[i]["id"] : i \in 1..Len(list)}

\* C1: a POST /flights whose body carries all required fields returns 201 with
\* the stored record (identifier and timestamps set), the record is in the
\* flight store under that identifier, and a GET of the identifier returns it.
C1_CreateFlightSucceeds ==
    (req.op = "create_flight" /\ FlightRequired \subseteq DOMAIN req.body) =>
        /\ resp.status = 201
        /\ Len(resp.body) = 1
        /\ \A f \in ReadOnlyFields : resp.body[1][f] # None
        /\ Contains(flights, resp.body[1]["id"][1])
        /\ GetItem(flights, resp.body[1]["id"][1]) = resp.body[1]
        /\ get_flight(resp.body[1]["id"][1]).status = 200
        /\ get_flight(resp.body[1]["id"][1]).body = resp.body

\* C2: as long as no PATCH or DELETE has named the identifier a POST /passengers
\* returned, a GET of it returns 200 with the very record the POST returned
\* (same identifier, same timestamps), whose fields are those of the POST body.
C2_PassengerCreateThenGet ==
    \A k \in DOMAIN created :
        LET c == created[k]
            g == get_passenger(k)
        IN  /\ g.status = 200
            /\ g.body = <<c.record>>
            /\ g.body[1]["id"] = Py(k)
            /\ \A f \in PassengerBaseFields \cap DOMAIN c.body : g.body[1][f] = c.body[f]
            /\ "flights" \notin DOMAIN c.body => g.body[1]["flights"] = Py(<<>>)

C2_Witness ==
    /\ req.op = "get_passenger"
    /\ resp.status = 200
    /\ req.id[1] \in DOMAIN created
    /\ created[req.id[1]].body = AdaByron
    /\ resp.body = <<created[req.id[1]].record>>
    /\ Len(passengers) = 2

IsUpdateOfExisting ==
    /\ req.op \in {"update_flight", "update_passenger"}
    /\ Contains(StoreBefore, req.id[1])
PatchFields == BaseFields \cap DOMAIN req.body
\* the update took effect: the fields of the body overwritten, all else as before
UpdateApplied ==
    /\ resp.status = 200
    /\ Contains(StoreAfter, req.id[1])
    /\ \A f \in PatchFields : GetItem(StoreAfter, req.id[1])[f] = req.body[f]
    /\ \A f \in (BaseFields \ PatchFields) \cup ReadOnlyFields :
           GetItem(StoreAfter, req.id[1])[f] = GetItem(StoreBefore, req.id[1])[f]
    /\ OthersUnchanged(StoreBefore, StoreAfter, req.id[1])
    /\ OtherStoreUnchanged
    /\ resp.body = <<GetItem(StoreAfter, req.id[1])>>

C4_ListReturnsExactMatches ==
    /\ \A q \in PassengerQueries :
        /\ list_passengers(q).status = 200
        /\ list_passengers(q).body = MatchingPassengers(passengers, q)
        /\ list_passengers(q).store = passengers
    /\ \A q \in FlightQueries :
        /\ list_flights(q).status = 200
        /\ list_flights(q).body = MatchingFlights(flights, q)
        /\ list_flights(q).store = flights
    /\ list_passengers(NoPassengerQuery).body = Values(passengers)
    /\ list_flights(NoFlightQuery).body = Values(flights)
    /\ req.op \in {"list_passengers", "list_flights"} =>
        /\ resp.status = 200
        /\ StoresUnchanged
        /\ req.op = "list_passengers" =>
               resp.body = MatchingPassengers(pre.passengers, req.body)
        /\ req.op = "list_flights" => resp.body = MatchingFlights(pre.flights, req.body)

C4_Witness ==
    /\ req.op = "list_passengers"
    /\ Cardinality({f \in PassengerQueryFields : req.body[f] # None}) = 2
    /\ req.body["birthDate"] # None
    /\ Len(passengers) = 2
    /\ Len(resp.body) = 1

\* C5: a DELETE that returns 204 removes the record of that identifier and no
\* other: afterwards (for good, for a passenger) a GET of the identifier returns
\* 404 and no list result holds it, and all other records of both stores are
\* as they were.
C5_DeleteRemovesOnlyThatRecord ==
    /\ \A k \in deleted :
        /\ ~Contains(passengers, k)
        /\ get_passenger(k).status = 404
        /\ \A q \in PassengerQueries : Py(k) \notin IdsIn(list_passengers(q).body)
    /\ (req.op \in {"delete_passenger", "delete_flight"} /\ resp.status = 204) =>
        /\ Contains(StoreBefore, req.id[1])
        /\ ~Contains(StoreAfter, req.id[1])
        /\ Len(StoreAfter) = Len(StoreBefore) - 1
        /\ OthersUnchanged(StoreBefore, StoreAfter, req.id[1])
        /\ OtherStoreUnchanged
        /\ req.op = "delete_flight" =>
            /\ get_flight(req.id[1]).status = 404
            /\ \A q \in FlightQueries : req.id \notin IdsIn(list_flights(q).body)

C5_Witness ==
    /\ req.op = "delete_passenger"
    /\ resp.status = 204
    /\ req.id[1] \in deleted
    /\ Len(pre.passengers) = 2
    /\ Len(passengers) = 1

\* C6: GET, PATCH and DELETE of an identifier that is not in the store return
\* 404, and a request answered with an error status leaves both stores as they
\* were.
C6_NotFoundAndErrorsChangeNothing ==
    /\ \A k \in UUIDs \ Keys(passengers) :
        /\ get_passenger(k).status = 404
        /\ delete_passenger(k).status = 404
        /\ \A body \in PassengerPatches : update_passenger(k, body).status = 404
    /\ \A k \in UUIDs \ Keys(flights) :
        /\ get_flight(k).status = 404
        /\ delete_flight(k).status = 404
        /\ \A body \in FlightPatches : update_flight(k, body).status = 404
    /\ (req.id # None /\ ~Contains(StoreBefore, req.id[1])) => resp.status = 404
    /\ resp.status >= 400 => StoresUnchanged

C6_Witness ==
    /\ req.op = "update_passenger"
    /\ resp.status = 404
    /\ Len(passengers) = 2
    /\ passengers = pre.passengers

C8_PassengerCreateNeverCollides ==
    (req.op = "create_passenger" /\ PassengerRequired \subseteq DOMAIN req.body) =>
        /\ resp.status = 201
        /\ resp.body[1]["id"][1] \notin Keys(pre.passengers)
        /\ Keys(passengers) = Keys(pre.passengers) \cup {resp.body[1]["id"][1]}
        /\ Len(passengers) = Len(pre.passengers) + 1
        /\ \A j \in Keys(pre.passengers) :
               GetItem(passengers, j) = GetItem(pre.passengers, j)
        /\ flights = pre.flights

C8_Witness ==
    /\ req.op = "create_passenger"
    /\ "id" \in DOMAIN req.body
    /\ Contains(pre.passengers, req.body["id"][1])
    /\ resp.status = 201
    /\ Len(passengers) = 2

UniqueKeys(d) == \A i, j \in 1..Len(d) : d[i].key = d[j].key => i = j
KeyedById(d) == \A i \in 1..Len(d) : d[i].value["id"] = Py(d[i].key)
SameIds(d, e) ==
    \A k \in Keys(d) \cap Keys(e) : GetItem(e, k)["id"] = GetItem(d, k)["id"]

\* C9: in both stores every key maps to a record whose identifier is that key,
\* no key occurs twice, and no request changes the identifier of a record that
\* stays in the store.
C9_IdentifiersUniqueAndImmutable ==
    /\ UniqueKeys(passengers) /\ KeyedById(passengers)
    /\ UniqueKeys(flights) /\ KeyedById(flights)
    /\ SameIds(pre.passengers, passengers)
    /\ SameIds(pre.flights, flights)

C9_Witness ==
    /\ req.op = "update_passenger"
    /\ resp.status = 200
    /\ "id" \in DOMAIN req.body
    /\ req.body["id"] # req.id
    /\ Len(passengers) = 2

\* no identifier whose DELETE returned 204 is in the store
NoResurrection == \A k \in deleted : ~Contains(passengers, k)

CompletedUpdate(t) ==
    /\ pc[t] = "done"
    /\ treq[t].op = "update_passenger"
    /\ tresp[t].status = 200
\* of two completed updates of one identifier that set disjoint fields, the
\* stored record carries the fields of both
BothUpdatesKept ==
    \A t, u \in Threads :
        (/\ t # u
         /\ CompletedUpdate(t) /\ CompletedUpdate(u)
         /\ treq[t].id = treq[u].id
         /\ (DOMAIN treq[t].body) \cap (DOMAIN treq[u].body) = {}
         /\ Contains(passengers, treq[t].id[1])) =>
            \A f \in DOMAIN treq[t].body :
                GetItem(passengers, treq[t].id[1])[f] = treq[t].body[f]

\* C10 as stated: with the handlers' steps interleaved, a deleted identifier
\* stays absent and two updates of disjoint fields are both kept.
C10_InterleavedHandlersAreSafe == NoResurrection /\ BothUpdatesKept

\* C10 amended: so it is as long as no handler has started while another was
\* running.
C10_SerialHandlersAreSafe == ~overlap => (NoResurrection /\ BothUpdatesKept)

C10_Witness ==
    /\ ~overlap
    /\ \E t, u \in Threads :
        /\ t # u
        /\ CompletedUpdate(t) /\ CompletedUpdate(u)
        /\ treq[t].id = treq[u].id
        /\ (DOMAIN treq[t].body) \cap (DOMAIN treq[u].body) = {}
        /\ Contains(passengers, treq[t].id[1])

=============================================================================
